---- MODULE Spec2Model ----
(***************************************************************************)
(* Model of the monitoring dashboard of src/app.py: the website extractor  *)
(* (get_soup, fetch_website_data), the cached Instagram profile fetcher    *)
(* (fetch_instagram_data), the Google-Sheet history store                  *)
(* (load_historical_data, save_historical_data), the fetch button handler  *)
(* and the presenter's sitemap classification.                             *)
(*                                                                         *)
(* Text whose content the code inspects (substring tests, strip, join) is  *)
(* a sequence of one-character strings.  A dataframe cell or a dict value  *)
(* is a record [k, n, s, l]: its kind, and its integer, text and list      *)
(* payloads (the payloads that the kind does not use are 0 / <<>>).        *)
(***************************************************************************)
EXTENDS Integers, Sequences, FiniteSets, TLC

VARIABLES sheet, now, instaCache, readCache, view, lastCall, out, nFetch, waited,
          race

vars ==
    <<sheet, now, instaCache, readCache, view, lastCall, out, nFetch, waited, race>>

(***************************************************************************)
(* Bounds of the model                                                     *)
(***************************************************************************)
MaxFetches == 2

MaxInitRows == 2

MaxFragments == 3

(***************************************************************************)
(* Text constants of src/app.py                                            *)
(***************************************************************************)
\* 'https://www.chapterhostels.com/'
TARGET_URL ==
    <<"h", "t", "t", "p", "s", ":", "/", "/", "w", "w", "w", ".", "c", "h", "a",
    "p", "t", "e", "r", "h", "o", "s", "t", "e", "l", "s", ".", "c", "o", "m",
    "/">>

\* 'MonitoringData'
WORKSHEET_NAME ==
    <<"M", "o", "n", "i", "t", "o", "r", "i", "n", "g", "D", "a", "t", "a">>

\* 'chapterhostels'
INSTAGRAM_USERNAME ==
    <<"c", "h", "a", "p", "t", "e", "r", "h", "o", "s", "t", "e", "l", "s">>

\* 'N/A'
NA_TEXT ==
    <<"N", "/", "A">>

\* 'Directive not found in robots.txt'
DIRECTIVE_NOT_FOUND ==
    <<"D", "i", "r", "e", "c", "t", "i", "v", "e", " ", "n", "o", "t", " ", "f",
    "o", "u", "n", "d", " ", "i", "n", " ", "r", "o", "b", "o", "t", "s", ".",
    "t", "x", "t">>

\* 'Not found (checked robots.txt & common paths)'
NOT_FOUND_CHECKED ==
    <<"N", "o", "t", " ", "f", "o", "u", "n", "d", " ", "(", "c", "h", "e", "c",
    "k", "e", "d", " ", "r", "o", "b", "o", "t", "s", ".", "t", "x", "t", " ",
    "&", " ", "c", "o", "m", "m", "o", "n", " ", "p", "a", "t", "h", "s", ")">>

\* 'Directive not found'
DirectiveNotFoundPat ==
    <<"D", "i", "r", "e", "c", "t", "i", "v", "e", " ", "n", "o", "t", " ", "f",
    "o", "u", "n", "d">>

\* 'Not found'
NotFoundPat ==
    <<"N", "o", "t", " ", "f", "o", "u", "n", "d">>

\* ', '
CommaSpace ==
    <<",", " ">>

\* '/robots.txt'
ROBOTS_PATH ==
    <<"/", "r", "o", "b", "o", "t", "s", ".", "t", "x", "t">>

\* 'http', '.xml', '.php': the marks of a found sitemap (line 483)
FoundMarks ==
    <<<<"h", "t", "t", "p">>,
      <<".", "x", "m", "l">>,
      <<".", "p", "h", "p">>>>

\* Texts of a page, of a robots.txt and of headings, as the requests of the
\* model return them
Sample ==
    [Title |->
         <<" ", "C", "h", "a", "p", "t", "e", "r", " ", "H", "o", "s", "t", "e", "l", "s", " ">>,
     Og |->
         <<"S", "t", "a", "y", " ", "s", "m", "a", "r", "t", " ">>,
     Meta |->
         <<"H", "o", "s", "t", "e", "l">>,
     H1a |->
         <<" ", "W", "e", "l", "c", "o", "m", "e", " ">>,
     H1b |->
         <<" ", " ">>,
     H1c |->
         <<"R", "o", "o", "m", "s">>,
     SitemapA |->
         <<"h", "t", "t", "p", "s", ":", "/", "/", "w", "w", "w", ".", "c", "h", "a", "p", "t", "e", "r", "h", "o", "s", "t", "e", "l", "s", ".", "c", "o", "m", "/", "s", "i", "t", "e", "m", "a", "p", ".", "x", "m", "l", " ">>,
     SitemapB |->
         <<"/", "n", "e", "w", "s", "-", "s", "i", "t", "e", "m", "a", "p">>,
     H1Comma |->
         <<"B", "e", "d", "s", ",", " ", "b", "a", "t", "h", "s">>,
     H1Bracket |->
         <<"R", "o", "o", "m", "s", " ", "[", "n", "e", "w", "]">>,
     H1Quote |->
         <<"I", "t", "'", "s", " ", "h", "e", "r", "e">>,
     H1Mixed |->
         <<"'", "T", "h", "e", " ", "\"", "L", "o", "f", "t", "\"", "'">>,
     H1Slash |->
         <<"a", "\\", "n">>]

\* 'soon'
JunkTimestamp ==
    <<"s", "o", "o", "n">>

\* 'Error parsing H1 tags from stored string: '
H1_PARSE_ERROR ==
    <<"E", "r", "r", "o", "r", " ", "p", "a", "r", "s", "i", "n", "g", " ",
    "H", "1", " ", "t", "a", "g", "s", " ", "f", "r", "o", "m", " ", "s",
    "t", "o", "r", "e", "d", " ", "s", "t", "r", "i", "n", "g", ":", " ">>

(***************************************************************************)
(* Text operations (Python str: `in`, strip, join)                         *)
(***************************************************************************)
\* p in s
Contains(s, p) ==
    \E i \in 0..(Len(s) - Len(p)) : SubSeq(s, i + 1, i + Len(p)) = p

IsSpace(c) ==
    c \in {" ", "\t", "\n"}

RECURSIVE LStrip(_)
LStrip(s) ==
    IF s # <<>> /\ IsSpace(Head(s)) THEN LStrip(Tail(s)) ELSE s

RECURSIVE RStrip(_)
RStrip(s) ==
    IF s # <<>> /\ IsSpace(s[Len(s)]) THEN RStrip(SubSeq(s, 1, Len(s) - 1)) ELSE s

\* s.strip()
Strip(s) ==
    RStrip(LStrip(s))

\* sep.join(xs)
RECURSIVE Join(_, _)
Join(sep, xs) ==
    IF xs = <<>> THEN <<>>
    ELSE IF Len(xs) = 1 THEN xs[1]
    ELSE xs[1] \o sep \o Join(sep, Tail(xs))

\* urljoin(url, path) for a path that starts with "/": the scheme and host of
\* url, then the path.
OriginEnd(url) ==
    LET slashes == {i \in 1..Len(url) : url[i] = "/" /\ i > 1 /\ url[i - 1] # "/"
                                         /\ (i = Len(url) \/ url[i + 1] # "/")}
    IN  IF slashes = {} THEN Len(url)
        ELSE (CHOOSE i \in slashes : \A j \in slashes : i <= j) - 1

UrlJoin(url, path) ==
    SubSeq(url, 1, OriginEnd(url)) \o path

(***************************************************************************)
(* Cells: the values of dict entries and dataframe cells                   *)
(***************************************************************************)
MkCell(k, n, s, l) ==
    [k |-> k, n |-> n, s |-> s, l |-> l]

StrCell(s) ==
    MkCell("str", 0, s, <<>>)

IntCell(n) ==
    MkCell("int", n, <<>>, <<>>)

BoolCell(b) ==
    MkCell("bool", IF b THEN 1 ELSE 0, <<>>, <<>>)

ListCell(l) ==
    MkCell("list", 0, <<>>, l)

\* datetime / pandas Timestamp of instant n
DateTime(n) ==
    MkCell("datetime", n, <<>>, <<>>)

PD_NA ==
    MkCell("NA", 0, <<>>, <<>>)

PY_NONE ==
    MkCell("None", 0, <<>>, <<>>)

NAN ==
    MkCell("NaN", 0, <<>>, <<>>)

NAT ==
    MkCell("NaT", 0, <<>>, <<>>)

\* pd.isna / pd.isnull
IsNull(c) ==
    c.k \in {"NA", "None", "NaN", "NaT"}

\* Python truth value of a cell
Truthy(c) ==
    CASE c.k = "str" -> c.s # <<>>
      [] c.k = "int" -> c.n # 0
      [] c.k = "bool" -> c.n = 1
      [] c.k = "list" -> c.l # <<>>
      [] c.k = "datetime" -> TRUE
      [] OTHER -> FALSE

\* A user-visible notice: st.warning / st.error / st.success / st.info
Msg(level, text) ==
    [level |-> level, text |-> text]

(***************************************************************************)
(* Exceptions: classes, and the `except` clauses that catch them           *)
(***************************************************************************)
NoExc == "none"

\* requests.exceptions.RequestException and its subclasses
IsRequestException(e) ==
    e \in {"Timeout", "ConnectionError", "HTTPError"}

\* `except Exception` catches every class of the model
IsException(e) ==
    e # NoExc

(***************************************************************************)
(* Extractor: get_soup and fetch_website_data                              *)
(*                                                                         *)
(* The environment of one extraction is env = [page, robots, probes]:      *)
(*   page   = [get, status, parse, doc]  the page request: get is          *)
(*            "response" or the exception class requests.get raises,       *)
(*            parse is "ok" or the class BeautifulSoup raises, doc is the  *)
(*            parsed document [title, og, meta, h1];                       *)
(*   robots = [get, status, lines]  the /robots.txt request; lines are the *)
(*            lines [key, value] of its body;                              *)
(*   probes = the outcome ("200", "404" or an exception class) of the HEAD *)
(*            request for each conventional sitemap path.                  *)
(***************************************************************************)
PAGE_TIMEOUT == 15

ROBOTS_TIMEOUT == 10

PROBE_TIMEOUT == 7

Request(method, url, timeout) ==
    [method |-> method, url |-> url, timeout |-> timeout]

\* get_soup without the call of raise_for_status: no status raises
RaiseForStatusNever(status) ==
    NoExc

\* response.raise_for_status()
RaiseForStatus(status) ==
    IF status >= 400 /\ status < 600 THEN "HTTPError" ELSE NoExc

\* The try body of get_soup: the exception it ends with, or the soup.
GetSoupTry(page) ==
    IF page.get # "response" THEN [exc |-> page.get, soup |-> page.doc]
    ELSE IF RaiseForStatus(page.status) # NoExc
         THEN [exc |-> RaiseForStatus(page.status), soup |-> page.doc]
    ELSE IF page.parse # "ok" THEN [exc |-> page.parse, soup |-> page.doc]
    ELSE [exc |-> NoExc, soup |-> page.doc]

\* get_soup(url): [raised, ok (a soup was returned, not None), soup, msgs]
GetSoup(page) ==
    LET t == GetSoupTry(page)
    IN  IF t.exc = NoExc
        THEN [raised |-> NoExc, ok |-> TRUE, soup |-> t.soup, msgs |-> <<>>]
        ELSE IF t.exc = "Timeout"
        THEN [raised |-> NoExc, ok |-> FALSE, soup |-> t.soup,
              msgs |-> <<Msg("warning", "Timeout fetching")>>]
        ELSE IF IsRequestException(t.exc)
        THEN [raised |-> NoExc, ok |-> FALSE, soup |-> t.soup,
              msgs |-> <<Msg("warning", "Could not fetch")>>]
        ELSE IF IsException(t.exc)
        THEN [raised |-> NoExc, ok |-> FALSE, soup |-> t.soup,
              msgs |-> <<Msg("error", "Error parsing HTML")>>]
        ELSE [raised |-> t.exc, ok |-> FALSE, soup |-> t.soup, msgs |-> <<>>]

\* The initial `data` dict of fetch_website_data
WebsiteDefaults ==
    ("Title" :> StrCell(NA_TEXT)) @@ ("Meta Description" :> StrCell(NA_TEXT))
    @@ ("Robots.txt Exists" :> BoolCell(FALSE))
    @@ ("Sitemap Found" :> StrCell(NA_TEXT)) @@ ("H1 Tags" :> ListCell(<<>>))

\* An optional text of the document: [present, s]
Present(s) ==
    [present |-> TRUE, s |-> s]

Absent ==
    [present |-> FALSE, s |-> <<>>]

\* `x and x.string`: the element exists and its text is a non-empty string
HasText(t) ==
    t.present /\ t.s # <<>>

\* [h1.text.strip() for h1 in h1_tags if h1.text.strip()]
RECURSIVE H1Texts(_)
H1Texts(h1s) ==
    IF h1s = <<>> THEN <<>>
    ELSE IF Strip(Head(h1s)) # <<>> THEN <<Strip(Head(h1s))>> \o H1Texts(Tail(h1s))
    ELSE H1Texts(Tail(h1s))

\* Lines 76-88: title, description and H1 texts of the parsed document
ParsePage(data, doc) ==
    LET d1 == IF HasText(doc.title)
              THEN [data EXCEPT !["Title"] = StrCell(Strip(doc.title.s))]
              ELSE data
        d2 == IF HasText(doc.og)
              THEN [d1 EXCEPT !["Meta Description"] = StrCell(Strip(doc.og.s))]
              ELSE IF HasText(doc.meta)
              THEN [d1 EXCEPT !["Meta Description"] = StrCell(Strip(doc.meta.s))]
              ELSE d1
    IN  [d2 EXCEPT !["H1 Tags"] = ListCell(H1Texts(doc.h1))]

\* key.lower() of a robots.txt line key, for re.IGNORECASE
LowerKey(key) ==
    IF key \in {"Sitemap", "sitemap", "SITEMAP"} THEN "sitemap" ELSE key

\* re.findall(r'Sitemap:\s*(.*)', text, re.IGNORECASE): the captured values
RECURSIVE SitemapLinks(_)
SitemapLinks(lines) ==
    IF lines = <<>> THEN <<>>
    ELSE IF LowerKey(Head(lines).key) = "sitemap"
         THEN <<Head(lines).value>> \o SitemapLinks(Tail(lines))
    ELSE SitemapLinks(Tail(lines))

RECURSIVE StripAll(_)
StripAll(xs) ==
    IF xs = <<>> THEN <<>> ELSE <<Strip(Head(xs))>> \o StripAll(Tail(xs))

\* Lines 90-104: the robots.txt request; [raised, data, msgs]
CheckRobots(data, robots) ==
    IF robots.get = "response"
    THEN IF robots.status = 200
         THEN LET d == [data EXCEPT !["Robots.txt Exists"] = BoolCell(TRUE)]
                  links == SitemapLinks(robots.lines)
              IN  [raised |-> NoExc, msgs |-> <<>>,
                   data |-> IF links # <<>>
                            THEN [d EXCEPT !["Sitemap Found"] =
                                      StrCell(Join(CommaSpace, StripAll(links)))]
                            ELSE [d EXCEPT !["Sitemap Found"] =
                                      StrCell(DIRECTIVE_NOT_FOUND)]]
         ELSE [raised |-> NoExc, msgs |-> <<>>, data |-> data]
    ELSE IF IsRequestException(robots.get)
    THEN [raised |-> NoExc, data |-> data,
          msgs |-> <<Msg("warning", "Could not check robots.txt")>>]
    ELSE [raised |-> robots.get, data |-> data, msgs |-> <<>>]

\* common_sitemaps, in order
CommonSitemaps ==
    <<<<"/", "s", "i", "t", "e", "m", "a", "p", ".", "x", "m", "l">>,
      <<"/", "s", "i", "t", "e", "m", "a", "p", "_", "i", "n", "d", "e", "x", ".", "x", "m", "l">>,
      <<"/", "s", "i", "t", "e", "m", "a", "p">>,
      <<"/", "s", "i", "t", "e", "m", "a", "p", ".", "p", "h", "p">>>>

\* Line 107: whether the conventional paths are probed
NeedsProbe(data) ==
    \/ ~Truthy(data["Sitemap Found"])
    \/ Contains(data["Sitemap Found"].s, DirectiveNotFoundPat)
    \/ data["Sitemap Found"] = StrCell(NA_TEXT)

\* Lines 111-119: the loop over common_sitemaps from index i on;
\* [raised, found (found_urls), requests]
RECURSIVE ProbeLoop(_, _, _)
ProbeLoop(url, probes, i) ==
    IF i > Len(CommonSitemaps)
    THEN [raised |-> NoExc, found |-> <<>>, requests |-> <<>>]
    ELSE LET sitemap_url == UrlJoin(url, CommonSitemaps[i])
             req == Request("HEAD", sitemap_url, PROBE_TIMEOUT)
             o == probes[i]
         IN  IF o \notin {"200", "404"} /\ ~IsRequestException(o)
             THEN [raised |-> o, found |-> <<>>, requests |-> <<req>>]
             ELSE LET rest == ProbeLoop(url, probes, i + 1)
                  IN  [raised |-> rest.raised,
                       found |-> IF o = "200" THEN <<sitemap_url>> \o rest.found
                                 ELSE rest.found,
                       requests |-> <<req>> \o rest.requests]

\* Lines 107-124: the fallback probe; [raised, data, requests]
ProbeSitemaps(url, data, probes) ==
    IF ~NeedsProbe(data)
    THEN [raised |-> NoExc, data |-> data, requests |-> <<>>]
    ELSE LET p == ProbeLoop(url, probes, 1)
         IN  [raised |-> p.raised, requests |-> p.requests,
              data |-> IF p.raised # NoExc THEN data
                       ELSE IF p.found # <<>>
                       THEN [data EXCEPT !["Sitemap Found"] =
                                 StrCell(Join(CommaSpace, p.found))]
                       ELSE IF \/ data["Sitemap Found"] = StrCell(DIRECTIVE_NOT_FOUND)
                               \/ data["Sitemap Found"] = StrCell(NA_TEXT)
                       THEN [data EXCEPT !["Sitemap Found"] =
                                 StrCell(NOT_FOUND_CHECKED)]
                       ELSE data]

\* fetch_website_data(url): [raised, data, msgs, requests]
FetchWebsiteData(url, env) ==
    LET pageReq == Request("GET", url, PAGE_TIMEOUT)
        g == GetSoup(env.page)
    IN  IF g.raised # NoExc
        THEN [raised |-> g.raised, data |-> WebsiteDefaults, msgs |-> g.msgs,
              requests |-> <<pageReq>>]
        ELSE IF ~g.ok
        THEN [raised |-> NoExc, data |-> WebsiteDefaults, msgs |-> g.msgs,
              requests |-> <<pageReq>>]
        ELSE LET d1 == ParsePage(WebsiteDefaults, g.soup)
                 robotsReq == Request("GET", UrlJoin(url, ROBOTS_PATH), ROBOTS_TIMEOUT)
                 r == CheckRobots(d1, env.robots)
             IN  IF r.raised # NoExc
                 THEN [raised |-> r.raised, data |-> r.data, msgs |-> r.msgs,
                       requests |-> <<pageReq, robotsReq>>]
                 ELSE LET p == ProbeSitemaps(url, r.data, env.probes)
                      IN  [raised |-> p.raised, data |-> p.data,
                           msgs |-> g.msgs \o r.msgs,
                           requests |-> <<pageReq, robotsReq>> \o p.requests]

(***************************************************************************)
(* Configuration                                                           *)
(***************************************************************************)
ALL_COLUMNS ==
    <<"Timestamp", "URL", "Instagram Handle", "Title", "Meta Description",
      "Robots.txt Exists", "Sitemap Found", "H1 Tags",
      "Followers", "Following", "Posts">>

NUMERIC_COLUMNS ==
    <<"Followers", "Following", "Posts">>

Range(seq) ==
    {seq[i] : i \in DOMAIN seq}

(***************************************************************************)
(* Profile fetcher: fetch_instagram_data under st.cache_data(ttl=3600)     *)
(*                                                                         *)
(* The environment of one upstream lookup is                               *)
(*   prof = [failAt, exc, followers, followees, mediacount]                *)
(* failAt is the call of the try body that raises exc ("none": no call     *)
(* raises); the three counts are cells (an int, or None).                  *)
(***************************************************************************)
INSTA_TTL == 3600

ProfileSteps ==
    <<"from_username", "followers", "followees", "mediacount">>

\* Whether the try body gets past step i (1..4) of ProfileSteps
StepDone(prof, i) ==
    \A j \in 1..i : prof.failAt # ProfileSteps[j]

\* Line 132: the initial `data` dict of fetch_instagram_data
ProfileDefaults ==
    ("Followers" :> PD_NA) @@ ("Following" :> PD_NA) @@ ("Posts" :> PD_NA)

\* Lines 132-149: the dict at the end of the try body, and the exception
ProfileTry(prof) ==
    LET d0 == ProfileDefaults
        d1 == IF StepDone(prof, 2) THEN [d0 EXCEPT !["Followers"] = prof.followers]
              ELSE d0
        d2 == IF StepDone(prof, 3) THEN [d1 EXCEPT !["Following"] = prof.followees]
              ELSE d1
        d3 == IF StepDone(prof, 4) THEN [d2 EXCEPT !["Posts"] = prof.mediacount]
              ELSE d2
    IN  [exc |-> IF prof.failAt = "none" THEN NoExc ELSE prof.exc, data |-> d3]

\* Lines 150-160: the notice of the try body's end, by the except clause taken
ProfileMsgs(exc) ==
    IF exc = NoExc THEN <<Msg("success", "Successfully fetched Instagram data")>>
    ELSE IF exc = "ProfileNotFoundError"
    THEN <<Msg("error", "Instagram profile not found")>>
    ELSE IF exc = "LoginRequiredException"
    THEN <<Msg("error", "Login required")>>
    ELSE IF exc = "PrivateProfileNotFollowedException"
    THEN <<Msg("error", "Profile is private")>>
    ELSE IF exc = "ConnectionException"
    THEN <<Msg("error", "Connection error fetching Instagram data")>>
    ELSE IF IsException(exc)
    THEN <<Msg("error", "An unexpected error occurred fetching Instagram data")>>
    ELSE <<>>

\* Lines 161-164: the finally block replaces None by pd.NA and returns data,
\* which ends the call normally whatever the try statement raised.
ProfileFinally(data) ==
    [key \in DOMAIN data |-> IF data[key].k = "None" THEN PD_NA ELSE data[key]]

\* The body of fetch_instagram_data(username): [raised, data, msgs]
FetchInstagramDataBody(prof) ==
    LET t == ProfileTry(prof)
    IN  [raised |-> NoExc, data |-> ProfileFinally(t.data), msgs |-> ProfileMsgs(t.exc)]

\* An st.cache_data entry: valid, the time it was stored, its key and value
NoEntry(value) ==
    [valid |-> FALSE, at |-> 0, key |-> <<>>, value |-> value]

Entry(at, key, value) ==
    [valid |-> TRUE, at |-> at, key |-> key, value |-> value]

\* A cached value is served while it is younger than ttl
CacheHit(cache, key, t, ttl) ==
    cache.valid /\ cache.key = key /\ t - cache.at < ttl

\* fetch_instagram_data(username) through its cache at time t:
\* [raised, data, msgs, lookups (upstream lookups performed), cache]
FetchInstagramData(username, prof, cache, t) ==
    IF CacheHit(cache, username, t, INSTA_TTL)
    THEN [raised |-> NoExc, data |-> cache.value, msgs |-> <<>>, lookups |-> 0,
          cache |-> cache]
    ELSE LET r == FetchInstagramDataBody(prof)
         IN  [raised |-> r.raised, data |-> r.data, msgs |-> r.msgs, lookups |-> 1,
              cache |-> IF r.raised = NoExc THEN Entry(t, username, r.data)
                        ELSE cache]

(***************************************************************************)
(* Dataframes: [columns, rows], each row a function from the column names  *)
(* to cells.                                                               *)
(***************************************************************************)
DataFrame(columns, rows) ==
    [columns |-> columns, rows |-> rows]

\* pd.DataFrame(columns=ALL_COLUMNS)
EmptyFrame ==
    DataFrame(ALL_COLUMNS, <<>>)

\* df[col] = pd.NA for each col of ALL_COLUMNS that df lacks (lines 186-191,
\* 237-242), then df[ALL_COLUMNS] (lines 213, 245)
WithAllColumns(df) ==
    DataFrame(ALL_COLUMNS,
              [i \in DOMAIN df.rows |->
                  [c \in Range(ALL_COLUMNS) |->
                      IF c \in Range(df.columns) THEN df.rows[i][c] ELSE PD_NA]])

\* A text cell that is the str() of the pandas Timestamp of instant n
IsoText(n) ==
    MkCell("isotext", n, <<>>, <<>>)

\* pd.to_datetime(x, errors='coerce') of one cell
ToDatetime(c) ==
    IF c.k \in {"datetime", "isotext"} THEN DateTime(c.n) ELSE NAT

\* pd.to_numeric(x, errors='coerce') of one cell
ToNumeric(c) ==
    IF c.k = "int" THEN c
    ELSE IF c.k = "bool" THEN IntCell(c.n)
    ELSE NAN

\* x.astype(str) of one cell of the loaded 'H1 Tags' column
AsTypeStr(c) ==
    IF c.k = "str" THEN c
    ELSE IF c.k = "isotext" THEN c
    ELSE IF c.k = "datetime" THEN IsoText(c.n)
    ELSE IF IsNull(c) THEN StrCell(<<"n", "a", "n">>)
    ELSE c

\* df.dropna(how='all')
DropAllNull(rows) ==
    SelectSeq(rows, LAMBDA r : \E c \in DOMAIN r : ~IsNull(r[c]))

\* load_historical_data without the dropna on Timestamp: every row is kept
DropNullTimestampKeepAll(rows) ==
    rows

\* df.dropna(subset=['Timestamp'])
DropNullTimestamp(rows) ==
    SelectSeq(rows, LAMBDA r : ~IsNull(r["Timestamp"]))


(***************************************************************************)
(* The Google Sheet.  A written cell that is None is an empty cell, and an *)
(* empty cell is read as NaN; every other cell is read as it was written.  *)
(***************************************************************************)
BLANK ==
    MkCell("blank", 0, <<>>, <<>>)

SheetWriteCell(c) ==
    IF IsNull(c) THEN BLANK ELSE c

SheetReadCell(c) ==
    IF c.k = "blank" THEN NAN ELSE c

\* The conversion named how, applied to the cell c
Convert(how, c) ==
    CASE how = "to_datetime" -> ToDatetime(c)
      [] how = "to_numeric" -> ToNumeric(c)
      [] how = "astype_str" -> AsTypeStr(c)
      [] how = "sheet_write" -> SheetWriteCell(c)
      [] how = "sheet_read" -> SheetReadCell(c)

\* df[col] = convert(df[col]): the cell of column col of every row converted
MapColumn(rows, col, how) ==
    [i \in DOMAIN rows |-> [rows[i] EXCEPT ![col] = Convert(how, rows[i][col])]]

\* Every cell of every row converted
MapCells(rows, how) ==
    [i \in DOMAIN rows |-> [c \in DOMAIN rows[i] |-> Convert(how, rows[i][c])]]

\* conn.update(worksheet, data=df): the sheet holds the frame after it
SheetWrite(df) ==
    DataFrame(df.columns, MapCells(df.rows, "sheet_write"))

READ_TTL == 5

\* conn.read(worksheet, usecols=range(len(ALL_COLUMNS)), ttl=5) at time t:
\* [exc, df, cache].  A cached frame younger than ttl is returned without a
\* request; else the request fails (readOk false) or returns the sheet.
ConnRead(sh, cache, t, readOk) ==
    IF CacheHit(cache, WORKSHEET_NAME, t, READ_TTL)
    THEN [exc |-> NoExc, df |-> cache.value, cache |-> cache]
    ELSE IF ~readOk
    THEN [exc |-> "Exception", df |-> EmptyFrame, cache |-> cache]
    ELSE LET df == DataFrame(sh.columns, MapCells(sh.rows, "sheet_read"))
         IN  [exc |-> NoExc, df |-> df, cache |-> Entry(t, WORKSHEET_NAME, df)]

(***************************************************************************)
(* History store: load_historical_data and save_historical_data            *)
(***************************************************************************)
\* Lines 176-213: the try body of load_historical_data after the read
LoadValidate(df0) ==
    LET kept == DropAllNull(df0.rows)
        df1 == IF kept = <<>> THEN EmptyFrame ELSE DataFrame(df0.columns, kept)
        df2 == WithAllColumns(df1)
        r3 == DropNullTimestamp(MapColumn(df2.rows, "Timestamp", "to_datetime"))
        r4 == MapColumn(MapColumn(MapColumn(r3, "Followers", "to_numeric"),
                                  "Following", "to_numeric"), "Posts", "to_numeric")
        r5 == MapColumn(r4, "H1 Tags", "astype_str")
    IN  [df |-> DataFrame(ALL_COLUMNS, r5),
         msgs |-> IF kept = <<>>
                  THEN <<Msg("warning", "Google Sheet appears empty")>>
                  ELSE <<>>]

\* load_historical_data without its except clause: the read's exception
\* reaches the caller
LoadFromReadPropagates(rd) ==
    IF rd.exc = NoExc
    THEN [raised |-> NoExc, failed |-> FALSE, cache |-> rd.cache] @@ LoadValidate(rd.df)
    ELSE [raised |-> rd.exc, failed |-> TRUE, df |-> EmptyFrame, msgs |-> <<>>,
          cache |-> rd.cache]

\* Lines 172-224 after the read rd: the validated frame, or the empty frame
\* of the except clause
LoadFromRead(rd) ==
    IF rd.exc = NoExc
    THEN [raised |-> NoExc, failed |-> FALSE, cache |-> rd.cache] @@ LoadValidate(rd.df)
    ELSE IF IsException(rd.exc)
    THEN [raised |-> NoExc, failed |-> TRUE, df |-> EmptyFrame, cache |-> rd.cache,
          msgs |-> <<Msg("error", "Error connecting to or reading from Google Sheet"),
                     Msg("warning", "Could not load historical data")>>]
    ELSE [raised |-> rd.exc, failed |-> TRUE, df |-> EmptyFrame, msgs |-> <<>>,
          cache |-> rd.cache]

\* load_historical_data() at time t: [raised, failed (the read raised), df,
\* msgs, cache]
LoadHistoricalData(sh, cache, t, readOk) ==
    LoadFromRead(ConnRead(sh, cache, t, readOk))

\* repr(s) of a Python str: in double quotes when s holds ' and no ", else in
\* single quotes, with \ and the quote escaped
RECURSIVE EscapeChars(_, _)
EscapeChars(s, q) ==
    IF s = <<>> THEN <<>>
    ELSE (IF Head(s) \in {"\\", q} THEN <<"\\", Head(s)>> ELSE <<Head(s)>>)
         \o EscapeChars(Tail(s), q)

\* repr(s) without the quotes and the escapes
PyReprStrBare(s) ==
    s

PyReprStr(s) ==
    IF "'" \in Range(s) /\ "\"" \notin Range(s)
    THEN <<"\"">> \o EscapeChars(s, "\"") \o <<"\"">>
    ELSE <<"'">> \o EscapeChars(s, "'") \o <<"'">>

RECURSIVE ReprAll(_)
ReprAll(xs) ==
    IF xs = <<>> THEN <<>> ELSE <<PyReprStr(Head(xs))>> \o ReprAll(Tail(xs))

\* str(x) of a list of str
PyStrList(l) ==
    <<"[">> \o Join(CommaSpace, ReprAll(l)) \o <<"]">>

\* Lines 254-256: str(x) of the new row's 'H1 Tags' cell
H1ToStr(c) ==
    IF c.k = "list" THEN StrCell(PyStrList(c.l))
    ELSE IF c.k = "str" THEN c
    ELSE StrCell(<<"<", "N", "A", ">">>)

\* Lines 260-261: df.astype(object).where(pd.notnull(df), None) of one cell
NullToNone(c) ==
    IF IsNull(c) THEN PY_NONE ELSE c

\* df.astype(object).where(pd.notnull(df), None) on the rows of df
WhereNotNull(rows) ==
    [i \in DOMAIN rows |-> [c \in DOMAIN rows[i] |-> NullToNone(rows[i][c])]]

\* The keys of a dict as a sequence
RECURSIVE KeySeq(_)
KeySeq(keys) ==
    IF keys = {} THEN <<>>
    ELSE LET key == CHOOSE x \in keys : TRUE IN <<key>> \o KeySeq(keys \ {key})

\* Lines 233-256: the one-row frame of the new record
NewDataFrame(data_dict) ==
    LET df0 == DataFrame(KeySeq(DOMAIN data_dict), <<data_dict>>)
        r1 == MapColumn(df0.rows, "Timestamp", "to_datetime")
        df2 == WithAllColumns(DataFrame(df0.columns, r1))
        r3 == MapColumn(MapColumn(MapColumn(df2.rows, "Followers", "to_numeric"),
                                  "Following", "to_numeric"), "Posts", "to_numeric")
    IN  DataFrame(df2.columns,
                  [i \in DOMAIN r3 |-> [r3[i] EXCEPT !["H1 Tags"] = H1ToStr(@)]])

\* pd.concat([a, b], ignore_index=True): the columns of a, then those of b
\* that a lacks; a cell of a missing column is NaN
Concat(a, b) ==
    LET cols == a.columns \o SelectSeq(b.columns, LAMBDA c : c \notin Range(a.columns))
        fill(df) == [i \in DOMAIN df.rows |->
                        [c \in Range(cols) |->
                            IF c \in Range(df.columns) THEN df.rows[i][c] ELSE NAN]]
    IN  DataFrame(cols, fill(a) \o fill(b))

\* Insert row r into rows sorted ascending by Timestamp, after its equals
RECURSIVE InsertByTimestamp(_, _)
InsertByTimestamp(rows, r) ==
    IF rows = <<>> THEN <<r>>
    ELSE IF r["Timestamp"].n < Head(rows)["Timestamp"].n THEN <<r>> \o rows
    ELSE <<Head(rows)>> \o InsertByTimestamp(Tail(rows), r)

\* df.sort_values(by="Timestamp", ascending=True)
RECURSIVE SortByTimestamp(_)
SortByTimestamp(rows) ==
    IF rows = <<>> THEN <<>>
    ELSE InsertByTimestamp(SortByTimestamp(SubSeq(rows, 1, Len(rows) - 1)),
                           rows[Len(rows)])

\* Lines 258-268: the frame save_historical_data writes
UpdatedFrame(df_history, new_data_df) ==
    LET df_history_safe == DataFrame(df_history.columns,
                                     WhereNotNull(df_history.rows))
        new_data_df_safe == DataFrame(new_data_df.columns,
                                      WhereNotNull(new_data_df.rows))
        df_updated == Concat(df_history_safe, new_data_df_safe)
        sorted == SortByTimestamp(df_updated.rows)
    IN  DataFrame(df_updated.columns, MapColumn(sorted, "Timestamp", "astype_str"))

\* save_historical_data without the call of conn.update: the sheet is left
\* as it was and the save reports success
SaveFromLoadNoUpdate(data_dict, sh, ld, writeOk) ==
    IF ld.raised # NoExc
    THEN [raised |-> ld.raised, sheet |-> sh, cache |-> ld.cache, msgs |-> ld.msgs,
          wrote |-> FALSE, attempts |-> 0]
    ELSE [raised |-> NoExc, sheet |-> sh, cache |-> ld.cache, msgs |-> ld.msgs,
          wrote |-> writeOk, attempts |-> 0]

\* save_historical_data without the except clause of the write: the error
\* of conn.update reaches the caller
SaveFromLoadRaising(data_dict, sh, ld, writeOk) ==
    IF ld.raised # NoExc
    THEN [raised |-> ld.raised, sheet |-> sh, cache |-> ld.cache, msgs |-> ld.msgs,
          wrote |-> FALSE, attempts |-> 0]
    ELSE IF writeOk
    THEN [raised |-> NoExc, cache |-> ld.cache, msgs |-> ld.msgs, wrote |-> TRUE,
          attempts |-> 1,
          sheet |-> SheetWrite(UpdatedFrame(ld.df, NewDataFrame(data_dict)))]
    ELSE [raised |-> "Exception", sheet |-> sh, cache |-> ld.cache, wrote |-> FALSE,
          attempts |-> 1, msgs |-> ld.msgs]

\* Lines 232-278 after the load ld: the write of the updated frame;
\* attempts counts the calls of conn.update
SaveFromLoad(data_dict, sh, ld, writeOk) ==
    IF ld.raised # NoExc
    THEN [raised |-> ld.raised, sheet |-> sh, cache |-> ld.cache, msgs |-> ld.msgs,
          wrote |-> FALSE, attempts |-> 0]
    ELSE IF writeOk
    THEN [raised |-> NoExc, cache |-> ld.cache, msgs |-> ld.msgs, wrote |-> TRUE,
          attempts |-> 1,
          sheet |-> SheetWrite(UpdatedFrame(ld.df, NewDataFrame(data_dict)))]
    ELSE [raised |-> NoExc, sheet |-> sh, cache |-> ld.cache, wrote |-> FALSE,
          attempts |-> 1,
          msgs |-> ld.msgs
                   \o <<Msg("error", "Failed to save data to Google Sheet"),
                        Msg("error", "The latest data point might not have been saved")>>]

\* save_historical_data(data_dict) at time t: [raised, sheet, cache, msgs, wrote]
SaveHistoricalData(data_dict, sh, cache, t, readOk, writeOk) ==
    SaveFromLoad(data_dict, sh, LoadHistoricalData(sh, cache, t, readOk), writeOk)

(***************************************************************************)
(* Presenter: the sitemap status label of the latest snapshot              *)
(***************************************************************************)
Display(label, raw) ==
    [label |-> label, raw |-> raw]

\* sitemap_display with the 'Not found' test made in lower case
SitemapDisplayLowerCase(sitemap_status) ==
    IF ~IsNull(sitemap_status) /\ sitemap_status.k = "str"
    THEN IF \E i \in DOMAIN FoundMarks : Contains(sitemap_status.s, FoundMarks[i])
         THEN Display("Found", <<>>)
         ELSE IF Contains(sitemap_status.s, <<"n", "o", "t", " ", "f", "o", "u", "n", "d">>)
         THEN Display("Not Found", <<>>)
         ELSE IF Contains(sitemap_status.s, DirectiveNotFoundPat)
         THEN Display("Not in robots.txt", <<>>)
         ELSE Display("Unknown", sitemap_status.s)
    ELSE Display("N/A", <<>>)

\* Lines 480-487: sitemap_display of the cell sitemap_status
SitemapDisplay(sitemap_status) ==
    IF ~IsNull(sitemap_status) /\ sitemap_status.k = "str"
    THEN IF \E i \in DOMAIN FoundMarks : Contains(sitemap_status.s, FoundMarks[i])
         THEN Display("Found", <<>>)
         ELSE IF Contains(sitemap_status.s, NotFoundPat)
         THEN Display("Not Found", <<>>)
         ELSE IF Contains(sitemap_status.s, DirectiveNotFoundPat)
         THEN Display("Not in robots.txt", <<>>)
         ELSE Display("Unknown", sitemap_status.s)
    ELSE Display("N/A", <<>>)

\* Lines 457-458: history_df.sort_values(by="Timestamp", ascending=False).iloc[0]
LatestRow(rows) ==
    SortByTimestamp(rows)[Len(rows)]

\* history_df.sort_values(by="Timestamp", ascending=False)
SortDescending(rows) ==
    [i \in DOMAIN rows |-> SortByTimestamp(rows)[Len(rows) + 1 - i]]

\* The series the page charts (lines 551-552)
PlottedSeries ==
    <<"Followers", "Posts">>

\* What one series shows: whether plot_trend ran, the points of df_plot, and
\* whether a chart was drawn
Plot(called, points, chart, msgs) ==
    [called |-> called, points |-> points, chart |-> chart, msgs |-> msgs]

NoPlot ==
    Plot(FALSE, <<>>, FALSE, <<>>)

\* A point of a chart: the instant and the value of one row
Point(r, y_col) ==
    [at |-> r["Timestamp"].n, value |-> ToNumeric(r[y_col]).n]

\* plot_trend with a chart drawn from one point on
PlotTrendFromOne(df, y_col) ==
    IF y_col \notin Range(df.columns)
    THEN Plot(TRUE, <<>>, FALSE, <<Msg("warning", "Column not found in data for plotting")>>)
    ELSE LET kept == SelectSeq(df.rows,
                               LAMBDA r : /\ ~IsNull(r["Timestamp"])
                                          /\ ~IsNull(r[y_col])
                                          /\ ~IsNull(ToNumeric(r[y_col])))
             df_plot == [i \in DOMAIN kept |-> Point(kept[i], y_col)]
         IN  IF Len(df_plot) >= 1 THEN Plot(TRUE, df_plot, TRUE, <<>>)
             ELSE Plot(TRUE, df_plot, FALSE,
                       <<Msg("write", "Not enough valid data points to plot")>>)

\* Lines 530-547: plot_trend(df, y_col, title, y_label)
PlotTrend(df, y_col) ==
    IF y_col \notin Range(df.columns)
    THEN Plot(TRUE, <<>>, FALSE, <<Msg("warning", "Column not found in data for plotting")>>)
    ELSE LET kept == SelectSeq(df.rows,
                               LAMBDA r : /\ ~IsNull(r["Timestamp"])
                                          /\ ~IsNull(r[y_col])
                                          /\ ~IsNull(ToNumeric(r[y_col])))
             df_plot == [i \in DOMAIN kept |-> Point(kept[i], y_col)]
         IN  IF Len(df_plot) > 1 THEN Plot(TRUE, df_plot, TRUE, <<>>)
             ELSE IF Len(df_plot) = 1
             THEN Plot(TRUE, df_plot, FALSE,
                       <<Msg("write", "Only one data point available")>>)
             ELSE Plot(TRUE, df_plot, FALSE,
                       <<Msg("write", "Not enough valid data points to plot")>>)

\* Lines 524-554: the charts of the sorted history; [plots, msgs], plots a
\* function from the numeric columns to what each shows
Trends(history_df) ==
    LET plot_df == DataFrame(history_df.columns,
                             DropNullTimestamp(MapColumn(history_df.rows, "Timestamp",
                                                         "to_datetime")))
    IN  IF Len(plot_df.rows) > 1
        THEN [plots |-> [s \in Range(NUMERIC_COLUMNS) |->
                            IF s \in Range(PlottedSeries) THEN PlotTrend(plot_df, s)
                            ELSE NoPlot],
              msgs |-> <<>>]
        ELSE [plots |-> [s \in Range(NUMERIC_COLUMNS) |-> NoPlot],
              msgs |-> <<Msg("info", "Need at least two data points with valid timestamps")>>]

\* The character an escape \c of a Python string literal stands for
Unescape(c) ==
    IF c = "n" THEN <<"\n">>
    ELSE IF c \in {"\\", "'", "\""} THEN <<c>>
    ELSE <<"\\", c>>

\* The string literal of s whose opening quote q is at i - 1, read from i
\* with acc read so far: [ok, text, next]
RECURSIVE ScanStr(_, _, _, _)
ScanStr(s, i, q, acc) ==
    IF i > Len(s) THEN [ok |-> FALSE, text |-> acc, next |-> i]
    ELSE IF s[i] = q THEN [ok |-> TRUE, text |-> acc, next |-> i + 1]
    ELSE IF s[i] = "\\"
    THEN IF i + 1 > Len(s) THEN [ok |-> FALSE, text |-> acc, next |-> i]
         ELSE ScanStr(s, i + 2, q, acc \o Unescape(s[i + 1]))
    ELSE ScanStr(s, i + 1, q, Append(acc, s[i]))

\* The first position from i on that holds no space
RECURSIVE SkipSpaces(_, _)
SkipSpaces(s, i) ==
    IF i <= Len(s) /\ s[i] = " " THEN SkipSpaces(s, i + 1) ELSE i

\* The elements of a list display of s from position i, acc read so far:
\* [ok, list]
RECURSIVE ParseElems(_, _, _)
ParseElems(s, i, acc) ==
    IF i > Len(s) \/ s[i] \notin {"'", "\""} THEN [ok |-> FALSE, list |-> acc]
    ELSE LET lit == ScanStr(s, i + 1, s[i], <<>>)
             j == SkipSpaces(s, lit.next)
         IN  IF ~lit.ok \/ j > Len(s) THEN [ok |-> FALSE, list |-> acc]
             ELSE IF s[j] = "]"
             THEN [ok |-> j = Len(s), list |-> Append(acc, lit.text)]
             ELSE IF s[j] = ","
             THEN LET k == SkipSpaces(s, j + 1)
                  IN  IF k = Len(s) /\ s[k] = "]"
                      THEN [ok |-> TRUE, list |-> Append(acc, lit.text)]
                      ELSE ParseElems(s, k, Append(acc, lit.text))
             ELSE [ok |-> FALSE, list |-> acc]

\* ast.literal_eval(s) of a text that starts with '[' and ends with ']', for
\* list displays of string literals: [ok, list]; every other text is an
\* error (ValueError or SyntaxError)
LiteralEval(s) ==
    LET i == SkipSpaces(s, 2)
    IN  IF Len(s) < 2 THEN [ok |-> FALSE, list |-> <<>>]
        ELSE IF i = Len(s) THEN [ok |-> TRUE, list |-> <<>>]
        ELSE ParseElems(s, i, <<>>)

\* Lines 500-511: h1_list of the cell h1s_raw
H1List(h1s_raw) ==
    IF ~IsNull(h1s_raw) /\ h1s_raw.k = "str"
    THEN IF h1s_raw.s # <<>> /\ Head(h1s_raw.s) = "["
            /\ h1s_raw.s[Len(h1s_raw.s)] = "]"
         THEN IF LiteralEval(h1s_raw.s).ok THEN LiteralEval(h1s_raw.s).list
              ELSE <<H1_PARSE_ERROR \o h1s_raw.s>>
         ELSE <<h1s_raw.s>>
    ELSE IF h1s_raw.k = "list" THEN h1s_raw.l
    ELSE <<>>

NoView ==
    [shown |-> FALSE, history |-> EmptyFrame, sitemap_display |-> Display("N/A", <<>>),
     h1_list |-> <<>>, plots |-> [s \in Range(NUMERIC_COLUMNS) |-> NoPlot],
     msgs |-> <<>>]

\* What a load showed of itself: whether it raised, whether its read failed,
\* and its notices
LoadLog(ld) ==
    [raised |-> ld.raised, failed |-> ld.failed, msgs |-> ld.msgs]

NoLoad ==
    [raised |-> NoExc, failed |-> FALSE, msgs |-> <<>>]

\* Lines 446-554: the view of the loaded history ld
ViewOf(ld) ==
    IF ld.df.rows = <<>>
    THEN [cache |-> ld.cache, load |-> LoadLog(ld),
          view |-> [shown |-> FALSE, history |-> ld.df,
                    sitemap_display |-> Display("N/A", <<>>),
                    h1_list |-> <<>>,
                    plots |-> [s \in Range(NUMERIC_COLUMNS) |-> NoPlot],
                    msgs |-> <<Msg("warning", "No historical monitoring data found")>>],
          msgs |-> ld.msgs \o <<Msg("warning", "No historical monitoring data found")>>]
    ELSE LET history_df == DataFrame(ld.df.columns, SortDescending(ld.df.rows))
             trends == Trends(history_df)
         IN  [cache |-> ld.cache, load |-> LoadLog(ld),
              view |-> [shown |-> TRUE, history |-> ld.df,
                        sitemap_display |->
                            SitemapDisplay(LatestRow(ld.df.rows)["Sitemap Found"]),
                        h1_list |-> H1List(LatestRow(ld.df.rows)["H1 Tags"]),
                        plots |-> trends.plots, msgs |-> trends.msgs],
              msgs |-> ld.msgs \o trends.msgs]

\* Lines 444-554: the page below the button: the loaded history, and the
\* labels of its latest row; [view, cache, load, msgs]
Render(sh, cache, t, readOk) ==
    ViewOf(LoadHistoricalData(sh, cache, t, readOk))

(***************************************************************************)
(* Snapshot builder and fetch button handler                               *)
(***************************************************************************)
\* d.get(key, default)
Get(d, key, default) ==
    IF key \in DOMAIN d THEN d[key] ELSE default

\* current_data as the two fetched dicts merged under the timestamp, without
\* the fixed keys
CurrentDataMerged(timestamp, website_info, insta_info) ==
    ("Timestamp" :> timestamp) @@ website_info @@ insta_info

\* Lines 409-426: current_data
CurrentData(timestamp, website_info, insta_info) ==
    LET d == ("Timestamp" :> timestamp) @@ ("URL" :> StrCell(TARGET_URL))
             @@ ("Instagram Handle" :> StrCell(INSTAGRAM_USERNAME))
             @@ ("Title" :> Get(website_info, "Title", PD_NA))
             @@ ("Meta Description" :> Get(website_info, "Meta Description", PD_NA))
             @@ ("Robots.txt Exists" :> Get(website_info, "Robots.txt Exists",
                                            BoolCell(FALSE)))
             @@ ("Sitemap Found" :> Get(website_info, "Sitemap Found", PD_NA))
             @@ ("H1 Tags" :> Get(website_info, "H1 Tags", ListCell(<<>>)))
             @@ ("Followers" :> Get(insta_info, "Followers", PD_NA))
             @@ ("Following" :> Get(insta_info, "Following", PD_NA))
             @@ ("Posts" :> Get(insta_info, "Posts", PD_NA))
    IN  [c \in DOMAIN d \cup Range(ALL_COLUMNS) |->
            IF c \in DOMAIN d THEN d[c] ELSE PD_NA]

\* The record of a fetch_instagram_data call: whether one was made, when, and
\* what it returned
\* The notices of the handler with st.success given only after a write
HandlerMsgsOnWrite(w, i, s) ==
    <<Msg("info", "Fetching monitoring data")>> \o w.msgs \o i.msgs \o s.msgs
        \o (IF s.wrote
            THEN <<Msg("success", "Monitoring data fetched and saved successfully")>>
            ELSE <<>>)

\* Lines 392-432: the notices of the handler, from st.info to st.success,
\* for the results w, i and s of the two fetches and of the save
HandlerMsgs(w, i, s) ==
    <<Msg("info", "Fetching monitoring data")>> \o w.msgs \o i.msgs \o s.msgs
        \o <<Msg("success", "Monitoring data fetched and saved successfully")>>

NoCall ==
    [called |-> FALSE, at |-> 0, data |-> ProfileDefaults]

\* Lines 390-436: one press of the fetch button, with the rerun it ends in.
\* web, prof: the environments of the two fetches; readOk, writeOk: whether
\* the read and the write of save_historical_data succeed; rerunReadOk:
\* whether the read of the rerun's load succeeds.
FetchHandler(web, prof, readOk, writeOk, rerunReadOk) ==
    \E w \in {FetchWebsiteData(TARGET_URL, web)},
       i \in {FetchInstagramData(INSTAGRAM_USERNAME, prof, instaCache, now)} :
    \E current_data \in {CurrentData(DateTime(now), w.data, i.data)} :
    \E s \in {SaveHistoricalData(current_data, sheet, readCache, now, readOk, writeOk)} :
    \E r \in {Render(s.sheet, NoEntry(EmptyFrame), now, rerunReadOk)} :
        IF w.raised # NoExc \/ i.raised # NoExc \/ s.raised # NoExc
        THEN /\ out' = [op |-> "fetch", completed |-> FALSE, ts |-> now,
                        record |-> current_data, wrote |-> FALSE,
                        attempts |-> s.attempts,
                        lookups |-> i.lookups, prevCall |-> lastCall,
                        load |-> NoLoad, msgs |-> w.msgs \o i.msgs]
             /\ instaCache' = i.cache
             /\ lastCall' = [called |-> TRUE, at |-> now, data |-> i.data]
             /\ UNCHANGED <<sheet, readCache, view>>
        ELSE /\ sheet' = s.sheet
             /\ instaCache' = NoEntry(ProfileDefaults)
             /\ readCache' = r.cache
             /\ view' = r.view
             /\ lastCall' = [called |-> TRUE, at |-> now, data |-> i.data]
             /\ out' = [op |-> "fetch", completed |-> TRUE, ts |-> now,
                        record |-> current_data, wrote |-> s.wrote,
                        attempts |-> s.attempts,
                        lookups |-> i.lookups, prevCall |-> lastCall,
                        load |-> r.load,
                        msgs |-> HandlerMsgs(w, i, s)]


(***************************************************************************)
(* Browser sessions that run the button handler at the same time: each has *)
(* its own position in the handler, its own record and its own loaded      *)
(* history; the sheet and the caches of st.cache_data are shared.          *)
(***************************************************************************)
Sessions ==
    {1, 2}

\* A load that has not run
NoLd ==
    [raised |-> NoExc, failed |-> FALSE, df |-> EmptyFrame, msgs |-> <<>>,
     cache |-> NoEntry(EmptyFrame)]

\* No session has pressed the button
NoRace ==
    [pc |-> [s \in Sessions |-> "idle"],
     record |-> [s \in Sessions |-> CurrentData(DateTime(0), WebsiteDefaults,
                                                ProfileDefaults)],
     ld |-> [s \in Sessions |-> NoLd],
     wrote |-> [s \in Sessions |-> FALSE],
     log |-> <<>>]
(***************************************************************************)
(* Environments                                                            *)
(***************************************************************************)
Doc(title, og, meta, h1) ==
    [title |-> title, og |-> og, meta |-> meta, h1 |-> h1]

EmptyDoc ==
    Doc(Absent, Absent, Absent, <<>>)

Docs ==
    {Doc(t, o, m, h) : t \in {Absent, Present(Sample.Title)},
                       o \in {Absent, Present(Sample.Og)},
                       m \in {Absent, Present(Sample.Meta)},
                       h \in {<<>>, <<Sample.H1b>>, <<Sample.H1a, Sample.H1b, Sample.H1c>>}}

Page(get, status, parse, doc) ==
    [get |-> get, status |-> status, parse |-> parse, doc |-> doc]

\* The page request fails: timeout, request error, 4xx or 5xx status, parse
\* error
FailedPages ==
    {Page("Timeout", 0, "ok", EmptyDoc), Page("ConnectionError", 0, "ok", EmptyDoc),
     Page("response", 404, "ok", EmptyDoc), Page("response", 500, "ok", EmptyDoc),
     Page("response", 200, "Exception", EmptyDoc)}

\* The failed pages, the pages that answer 200, and a 304 with an empty body
Pages ==
    FailedPages \cup {Page("response", 200, "ok", d) : d \in Docs}
        \cup {Page("response", 304, "ok", EmptyDoc)}

Line(key, value) ==
    [key |-> key, value |-> value]

Robots(get, status, lines) ==
    [get |-> get, status |-> status, lines |-> lines]

RobotsOutcomes ==
    {Robots("Timeout", 0, <<>>), Robots("ConnectionError", 0, <<>>),
     Robots("response", 404, <<>>), Robots("response", 200, <<>>),
     Robots("response", 200, <<Line("Disallow", <<"/">>)>>),
     Robots("response", 200, <<Line("Sitemap", Sample.SitemapA)>>),
     Robots("response", 200, <<Line("Disallow", <<"/">>), Line("sitemap", Sample.SitemapA),
                               Line("SITEMAP", Sample.SitemapB)>>),
     Robots("response", 200, <<Line("Sitemap", <<>>)>>)}

ProbeOutcomes ==
    {<<a, b, c, d>> : a \in {"200", "404", "Timeout"}, b \in {"200", "404"},
                      c \in {"200", "404", "ConnectionError"}, d \in {"200", "404"}}

WebEnv(page, robots, probes) ==
    [page |-> page, robots |-> robots, probes |-> probes]

WebEnvs ==
    {WebEnv(p, r, q) : p \in Pages, r \in RobotsOutcomes, q \in ProbeOutcomes}

\* The environments of the website fetch that the pipeline is run with
PipelineWebEnvs ==
    {WebEnv(Page("response", 200, "ok",
                 Doc(Present(Sample.Title), Present(Sample.Og), Absent,
                     <<Sample.H1a, Sample.H1c>>)),
            Robots("response", 200, <<Line("Sitemap", Sample.SitemapA)>>), <<"404", "404", "404", "404">>)}

Prof(failAt, exc, followers, followees, mediacount) ==
    [failAt |-> failAt, exc |-> exc, followers |-> followers,
     followees |-> followees, mediacount |-> mediacount]

ProfExceptions ==
    {"ProfileNotFoundError", "LoginRequiredException",
     "PrivateProfileNotFollowedException", "ConnectionException", "Exception"}

Counts ==
    {IntCell(0), IntCell(1200), PY_NONE}

ProfEnvs ==
    {Prof("none", NoExc, a, b, c) : a \in Counts, b \in Counts, c \in Counts}
    \cup {Prof(ProfileSteps[i], e, a, b, c) :
              i \in DOMAIN ProfileSteps, e \in ProfExceptions,
              a \in {IntCell(1200)}, b \in {IntCell(300), PY_NONE}, c \in {IntCell(45)}}

\* The environments of the profile fetch that the pipeline is run with
PipelineProfEnvs ==
    {Prof("none", NoExc, IntCell(1200), IntCell(300), IntCell(45)),
     Prof("from_username", "ProfileNotFoundError", IntCell(1200), IntCell(300),
          IntCell(45))}

(***************************************************************************)
(* Initial sheets: rows the pipeline wrote at instants 1 and 2, a row      *)
(* whose Timestamp text does not parse, and an empty row of the sheet.     *)
(***************************************************************************)
\* The row save_historical_data writes for a record
WrittenRow(data_dict) ==
    SheetWrite(UpdatedFrame(EmptyFrame, NewDataFrame(data_dict))).rows[1]

InitRowA ==
    WrittenRow(CurrentData(DateTime(1), WebsiteDefaults, ProfileDefaults))

InitRowB ==
    WrittenRow(CurrentData(DateTime(2),
                           [WebsiteDefaults EXCEPT
                               !["Sitemap Found"] = StrCell(DIRECTIVE_NOT_FOUND)],
                           [ProfileDefaults EXCEPT !["Followers"] = IntCell(1100)]))

JunkRow ==
    [InitRowA EXCEPT !["Timestamp"] = StrCell(JunkTimestamp)]

BlankRow ==
    [c \in Range(ALL_COLUMNS) |-> BLANK]

InitRowChoices ==
    {InitRowA, InitRowB, JunkRow, BlankRow}

RECURSIVE SeqsUpTo(_, _)
SeqsUpTo(S, n) ==
    IF n = 0 THEN {<<>>}
    ELSE LET shorter == SeqsUpTo(S, n - 1)
         IN  shorter \cup {Append(q, x) : q \in shorter, x \in S}

\* The rows with a parseable Timestamp are in strictly ascending order
TimeOrdered(rows) ==
    \A i, j \in DOMAIN rows :
        (i < j /\ rows[i]["Timestamp"].k = "isotext" /\ rows[j]["Timestamp"].k = "isotext")
            => rows[i]["Timestamp"].n < rows[j]["Timestamp"].n

InitSheets ==
    {DataFrame(ALL_COLUMNS, rows) :
        rows \in {q \in SeqsUpTo(InitRowChoices, MaxInitRows) : TimeOrdered(q)}}

(***************************************************************************)
(* The pipeline: the state machine of the dashboard                        *)
(***************************************************************************)
Init ==
    /\ sheet \in InitSheets
    /\ now = 10
    /\ instaCache = NoEntry(ProfileDefaults)
    /\ readCache = NoEntry(EmptyFrame)
    /\ view = NoView
    /\ lastCall = NoCall
    /\ out = [op |-> "init"]
    /\ nFetch = 0
    /\ waited = FALSE
    /\ race = NoRace

\* One press of the fetch button; the handler takes one second
FetchButton ==
    /\ nFetch < MaxFetches
    /\ \E web \in PipelineWebEnvs, prof \in PipelineProfEnvs,
          readOk \in BOOLEAN, writeOk \in BOOLEAN, rerunReadOk \in BOOLEAN :
            FetchHandler(web, prof, readOk, writeOk, rerunReadOk)
    /\ now' = now + 1
    /\ nFetch' = nFetch + 1
    /\ waited' = FALSE
    /\ UNCHANGED race

\* A run of the script without the button pressed (page opened or reloaded)
RenderPage ==
    /\ \E readOk \in BOOLEAN :
          LET r == Render(sheet, readCache, now, readOk)
          IN  /\ view' = r.view
              /\ readCache' = r.cache
              /\ out' = [op |-> "render", load |-> r.load, msgs |-> r.msgs]
    /\ UNCHANGED <<sheet, now, instaCache, lastCall, nFetch, waited, race>>

\* Time passes
Wait ==
    /\ ~waited
    /\ CacheHit(readCache, WORKSHEET_NAME, now, READ_TTL)
    /\ now' = readCache.at + READ_TTL
    /\ waited' = TRUE
    /\ out' = [op |-> "wait"]
    /\ UNCHANGED <<sheet, instaCache, readCache, view, lastCall, nFetch, race>>

Next ==
    \/ FetchButton
    \/ RenderPage
    \/ Wait

Spec ==
    Init /\ [][Next]_vars

(***************************************************************************)
(* The calls: each function applied to the environments of its inputs      *)
(***************************************************************************)
InitCalls ==
    /\ sheet = DataFrame(ALL_COLUMNS, <<InitRowA, JunkRow>>)
    /\ now = 10
    /\ instaCache = NoEntry(ProfileDefaults)
    /\ readCache = NoEntry(EmptyFrame)
    /\ view = NoView
    /\ lastCall = NoCall
    /\ out = [op |-> "init"]
    /\ nFetch = 0
    /\ waited = FALSE
    /\ race = NoRace

\* Status texts: up to MaxFragments fragments of the texts the presenter
\* tests for, one after the other
StatusFragments ==
    Range(FoundMarks)
        \cup {NotFoundPat, DirectiveNotFoundPat, DIRECTIVE_NOT_FOUND, NOT_FOUND_CHECKED,
              NA_TEXT, CommonSitemaps[3]}

RECURSIVE Texts(_, _)
Texts(S, n) ==
    IF n = 0 THEN {<<>>}
    ELSE LET shorter == Texts(S, n - 1)
         IN  shorter \cup {q \o x : q \in shorter, x \in S}

\* The cells of the 'Sitemap Found' column of a loaded row
StatusCells ==
    {StrCell(s) : s \in Texts(StatusFragments, MaxFragments)} \cup {NAN}

\* The records of the profile fetch and of the website fetch to build from
BuildProfData ==
    {FetchInstagramDataBody(prof).data : prof \in ProfEnvs}

BuildWebEnvs ==
    {WebEnv(p, r, q) :
        p \in FailedPages \cup {Page("response", 200, "ok", d) :
                                    d \in {EmptyDoc, Doc(Present(Sample.Title), Absent,
                                                         Present(Sample.Meta),
                                                         <<Sample.H1a, Sample.H1c>>)}},
        r \in RobotsOutcomes,
        q \in {<<"404", "404", "404", "404">>, <<"200", "404", "ConnectionError", "200">>}}

ExtractCall ==
    /\ out.op = "init"
    /\ \E env \in WebEnvs :
          out' = [op |-> "extract", env |-> env,
                  res |-> FetchWebsiteData(TARGET_URL, env)]
    /\ UNCHANGED <<sheet, now, instaCache, readCache, view, lastCall, nFetch, waited, race>>

ProfileCall ==
    /\ out.op = "init"
    /\ \E prof \in ProfEnvs :
          out' = [op |-> "profile", env |-> prof, res |-> FetchInstagramDataBody(prof)]
    /\ UNCHANGED <<sheet, now, instaCache, readCache, view, lastCall, nFetch, waited, race>>

\* sitemap_display of a status cell
ClassifyCall ==
    /\ out.op = "init"
    /\ \E c \in StatusCells :
          out' = [op |-> "classify", status |-> c, res |-> SitemapDisplay(c)]
    /\ UNCHANGED <<sheet, now, instaCache, readCache, view, lastCall, nFetch, waited, race>>

\* current_data of the two fetches' records, and the sheet that
\* save_historical_data writes for it
BuildCall ==
    /\ out.op = "init"
    /\ \E web \in BuildWebEnvs, insta_info \in BuildProfData, readOk \in BOOLEAN :
          \E record \in {CurrentData(DateTime(now),
                                     FetchWebsiteData(TARGET_URL, web).data, insta_info)} :
              out' = [op |-> "build", web |-> web, insta |-> insta_info,
                      record |-> record,
                      written |-> SaveHistoricalData(record, sheet, readCache, now,
                                                     readOk, TRUE).sheet]
    /\ UNCHANGED <<sheet, now, instaCache, readCache, view, lastCall, nFetch, waited, race>>

\* H1 sequences: none, one entry, and entries with a comma, brackets, quotes
\* and a backslash
H1Samples ==
    {<<>>, <<Sample.H1c>>, <<Sample.H1Comma, Sample.H1Bracket>>,
     <<Sample.H1Quote>>, <<Sample.H1Mixed, Sample.H1c>>,
     <<Sample.H1Slash, Sample.H1Quote, Sample.H1Comma>>}

\* Texts of an 'H1 Tags' cell that save_historical_data did not write
StoredH1Texts ==
    {<<"[">>, <<"[", "R", "o", "o", "m", "s", "]">>, <<"[", "'", "a", "]">>, Sample.H1c}

\* The H1 list h1 saved by save_historical_data, loaded by
\* load_historical_data and parsed back for the latest row
RoundTripCall ==
    /\ out.op = "init"
    /\ \E h1 \in H1Samples :
          \E record \in {CurrentData(DateTime(now),
                                     [WebsiteDefaults EXCEPT !["H1 Tags"] = ListCell(h1)],
                                     ProfileDefaults)} :
          \E written \in {SaveHistoricalData(record, sheet, readCache, now, TRUE, TRUE).sheet} :
          \E ld \in {LoadHistoricalData(written, NoEntry(EmptyFrame), now, TRUE)} :
              out' = [op |-> "roundtrip", h1 |-> h1,
                      stored |-> written.rows[Len(written.rows)]["H1 Tags"],
                      loaded |-> LatestRow(ld.df.rows)["H1 Tags"],
                      parsed |-> H1List(LatestRow(ld.df.rows)["H1 Tags"])]
    /\ UNCHANGED <<sheet, now, instaCache, readCache, view, lastCall, nFetch, waited, race>>

\* h1_list of a stored text
ParseCall ==
    /\ out.op = "init"
    /\ \E s \in StoredH1Texts :
          out' = [op |-> "parse", raw |-> StrCell(s), parsed |-> H1List(StrCell(s))]
    /\ UNCHANGED <<sheet, now, instaCache, readCache, view, lastCall, nFetch, waited, race>>

NextCalls ==
    \/ ExtractCall
    \/ ProfileCall
    \/ ClassifyCall
    \/ BuildCall
    \/ RoundTripCall
    \/ ParseCall

SpecCalls ==
    InitCalls /\ [][NextCalls]_vars


(***************************************************************************)
(* Two sessions in the button handler at the same time.  The handler of a  *)
(* session runs in four steps, and the steps of the two sessions           *)
(* interleave: the fetches, the load inside save_historical_data, the      *)
(* write, and the end of the handler with its rerun.                       *)
(***************************************************************************)
InitRace ==
    /\ sheet \in InitSheets
    /\ now = 10
    /\ instaCache = NoEntry(ProfileDefaults)
    /\ readCache = NoEntry(EmptyFrame)
    /\ view = NoView
    /\ lastCall = NoCall
    /\ out = [op |-> "init"]
    /\ nFetch = 0
    /\ waited = FALSE
    /\ race = NoRace

\* An entry of the log of loads and writes
Event(s, e) ==
    [s |-> s, e |-> e]

\* Lines 390-426 in session s: the timestamp, the two fetches, current_data
RacePress(s) ==
    /\ race.pc[s] = "idle"
    /\ \E web \in PipelineWebEnvs, prof \in PipelineProfEnvs :
       \E w \in {FetchWebsiteData(TARGET_URL, web)},
          i \in {FetchInstagramData(INSTAGRAM_USERNAME, prof, instaCache, now)} :
           /\ race' = [race EXCEPT !.pc[s] = "fetched",
                                   !.record[s] = CurrentData(DateTime(now), w.data, i.data)]
           /\ instaCache' = i.cache
           /\ lastCall' = [called |-> TRUE, at |-> now, data |-> i.data]
           /\ out' = [op |-> "race", s |-> s, step |-> "press"]
    /\ now' = now + 1
    /\ UNCHANGED <<sheet, readCache, view, nFetch, waited>>

\* Line 230 in session s: df_history = load_historical_data()
RaceLoad(s) ==
    /\ race.pc[s] = "fetched"
    /\ \E readOk \in BOOLEAN :
       \E ld \in {LoadHistoricalData(sheet, readCache, now, readOk)} :
           /\ race' = [race EXCEPT !.pc[s] = "loaded", !.ld[s] = ld,
                                   !.log = Append(@, Event(s, "load"))]
           /\ readCache' = ld.cache
    /\ out' = [op |-> "race", s |-> s, step |-> "load"]
    /\ UNCHANGED <<sheet, now, instaCache, view, lastCall, nFetch, waited>>

\* The write of a session that reads the sheet again as it writes
RaceWriteReloading(s) ==
    /\ race.pc[s] = "loaded"
    /\ \E writeOk \in BOOLEAN :
       \E sv \in {SaveFromLoad(race.record[s], sheet,
                               LoadHistoricalData(sheet, NoEntry(EmptyFrame), now, TRUE),
                               writeOk)} :
           /\ sheet' = sv.sheet
           /\ race' = [race EXCEPT !.pc[s] = "written", !.wrote[s] = sv.wrote,
                                   !.log = Append(@, Event(s, "write"))]
    /\ out' = [op |-> "race", s |-> s, step |-> "write"]
    /\ UNCHANGED <<now, instaCache, readCache, view, lastCall, nFetch, waited>>

\* Lines 232-278 in session s: the new row joined to the history this
\* session loaded, and conn.update of the whole sheet
RaceWrite(s) ==
    /\ race.pc[s] = "loaded"
    /\ \E writeOk \in BOOLEAN :
       \E sv \in {SaveFromLoad(race.record[s], sheet, race.ld[s], writeOk)} :
           /\ sheet' = sv.sheet
           /\ race' = [race EXCEPT !.pc[s] = "written", !.wrote[s] = sv.wrote,
                                   !.log = Append(@, Event(s, "write"))]
    /\ out' = [op |-> "race", s |-> s, step |-> "write"]
    /\ UNCHANGED <<now, instaCache, readCache, view, lastCall, nFetch, waited>>

\* Lines 432-444 in session s: st.success, st.cache_data.clear(), st.rerun()
\* and the load of the rerun
RaceRerun(s) ==
    /\ race.pc[s] = "written"
    /\ \E readOk \in BOOLEAN :
       \E r \in {Render(sheet, NoEntry(EmptyFrame), now, readOk)} :
           /\ view' = r.view
           /\ readCache' = r.cache
    /\ instaCache' = NoEntry(ProfileDefaults)
    /\ race' = [race EXCEPT !.pc[s] = "done"]
    /\ out' = [op |-> "race", s |-> s, step |-> "rerun"]
    /\ UNCHANGED <<sheet, now, lastCall, nFetch, waited>>

NextRace ==
    \E s \in Sessions :
        \/ RacePress(s)
        \/ RaceLoad(s)
        \/ RaceWrite(s)
        \/ RaceRerun(s)

SpecRace ==
    InitRace /\ [][NextRace]_vars
(***************************************************************************)
(* Claims                                                                  *)
(***************************************************************************)
\* The step is one press of the fetch button
IsFetchStep ==
    nFetch' = nFetch + 1

\* A row of the sheet with at least one cell that is not empty
NonEmptyRow(r) ==
    \E c \in DOMAIN r : r[c].k # "blank"

\* C1: every non-empty row that is in the persisted table before a fetch
\* action's append is still in it, with the same field values, after the
\* append, whatever the outcome of the load that the append performs.
C1_AppendKeepsRows ==
    [][IsFetchStep =>
          \A i \in DOMAIN sheet.rows :
              NonEmptyRow(sheet.rows[i]) =>
                  \E j \in DOMAIN sheet'.rows : sheet'.rows[j] = sheet.rows[i]]_vars

\* C2: every fetch action that runs to completion adds exactly one row to the
\* persisted table, for every outcome of the fetches, the load and the write.
C2_OneRowPerFetch ==
    [][(IsFetchStep /\ out'.completed) =>
          Len(sheet'.rows) = Len(sheet.rows) + 1]_vars

\* The last action ended with a load of the history: a page run, or the rerun
\* that ends a completed fetch action
Loaded ==
    out.op = "render" \/ (out.op = "fetch" /\ out.completed)

\* The cell a loaded row holds for the cell c that was put in the record
LoadedAs(cell, c) ==
    IF IsNull(c) THEN IsNull(cell) ELSE cell = c

\* A loaded row is the row of the record of the last fetch action
IsNewRow(r) ==
    /\ r["Timestamp"] = DateTime(out.ts)
    /\ \A c \in {"URL", "Instagram Handle", "Title", "Meta Description",
                 "Robots.txt Exists", "Sitemap Found", "Followers", "Following",
                 "Posts"} : LoadedAs(r[c], out.record[c])

\* The loaded table holds the new row, and no timestamp later than its own
NewRowIsLatest ==
    /\ \E i \in DOMAIN view.history.rows : IsNewRow(view.history.rows[i])
    /\ \A i \in DOMAIN view.history.rows : view.history.rows[i]["Timestamp"].n <= out.ts

FixedColumns ==
    <<"Timestamp", "URL", "Instagram Handle", "Title", "Meta Description",
      "Robots.txt Exists", "Sitemap Found", "H1 Tags", "Followers", "Following",
      "Posts">>

\* C4: for every combination of outcomes of the two fetches the record handed
\* to append has exactly the 11 fixed columns, and the sheet that append
\* writes has those columns in the fixed order, each row with every column.
C4_FixedSchema ==
    out.op = "build" =>
        /\ DOMAIN out.record = Range(FixedColumns)
        /\ Cardinality(DOMAIN out.record) = 11
        /\ out.written.columns = FixedColumns
        /\ \E i \in DOMAIN out.written.rows :
               out.written.rows[i]["Timestamp"] = IsoText(now)
        /\ \A i \in DOMAIN out.written.rows :
               DOMAIN out.written.rows[i] = Range(FixedColumns)

\* Both fetches failed
C4_Witness ==
    /\ out.op = "build"
    /\ out.web.page.get = "Timeout"
    /\ \A key \in DOMAIN out.insta : IsNull(out.insta[key])
    /\ Len(out.written.rows) = 2

\* The stored rows whose Timestamp text parses
ParseableRows(rows) ==
    SelectSeq(rows, LAMBDA r : r["Timestamp"].k = "isotext")

\* A loaded row is the stored row: its timestamp parsed, its texts as stored
SameRow(loaded, stored) ==
    /\ loaded["Timestamp"] = DateTime(stored["Timestamp"].n)
    /\ \A c \in {"URL", "Instagram Handle", "Title", "Meta Description",
                 "Robots.txt Exists", "Sitemap Found"} :
           IF stored[c].k = "blank" THEN IsNull(loaded[c]) ELSE loaded[c] = stored[c]

\* The loaded table is the stored rows whose timestamp parses, in their order
LoadedExactlyParseable ==
    /\ Len(view.history.rows) = Len(ParseableRows(sheet.rows))
    /\ \A i \in DOMAIN view.history.rows :
           SameRow(view.history.rows[i], ParseableRows(sheet.rows)[i])

\* C5 as stated: load returns exactly the stored rows whose timestamp parses.
C5_Original ==
    Loaded => LoadedExactlyParseable

\* C5 as amended: when its read of the persisted table succeeds, load returns
\* exactly the stored rows whose timestamp parses.
C5_LoadKeepsParseable ==
    (Loaded /\ ~out.load.failed) => LoadedExactlyParseable

\* A load that dropped a stored row and kept another
C5_Witness ==
    /\ out.op = "render" /\ ~out.load.failed
    /\ \E i \in DOMAIN sheet.rows : sheet.rows[i]["Timestamp"] = StrCell(JunkTimestamp)
    /\ Len(view.history.rows) >= 1
    /\ Len(view.history.rows) < Len(sheet.rows)

\* C6: fetch_profile never raises, and when the lookup fails at any step the
\* returned record has Followers, Following and Posts all absent.
C6_FailureLeavesAllAbsent ==
    (out.op = "profile" /\ out.env.failAt # "none") =>
        /\ out.res.raised = NoExc
        /\ \A key \in {"Followers", "Following", "Posts"} : IsNull(out.res.data[key])

\* The page fetch fails: timeout, request error, non-2xx status, parse error
PageFailed(page) ==
    \/ page.get # "response"
    \/ page.status < 200
    \/ page.status > 299
    \/ page.parse # "ok"

\* The record with every field at its default, and the page request alone
DefaultsAtOnce(res) ==
    /\ res.data["Title"] = StrCell(<<"N", "/", "A">>)
    /\ res.data["Meta Description"] = StrCell(<<"N", "/", "A">>)
    /\ res.data["Robots.txt Exists"] = BoolCell(FALSE)
    /\ res.data["Sitemap Found"] = StrCell(<<"N", "/", "A">>)
    /\ res.data["H1 Tags"] = ListCell(<<>>)
    /\ DOMAIN res.data = {"Title", "Meta Description", "Robots.txt Exists",
                          "Sitemap Found", "H1 Tags"}
    /\ Len(res.requests) = 1
    /\ res.requests[1].method = "GET"
    /\ res.requests[1].url = TARGET_URL

HasMsg(msgs, levels) ==
    \E i \in DOMAIN msgs : msgs[i].level \in levels

\* C7 as stated: extract never raises, and when the page fetch fails it emits
\* a warning and returns the defaults at once, with no further request.
C7_Original ==
    out.op = "extract" =>
        /\ out.res.raised = NoExc
        /\ PageFailed(out.env.page) =>
               HasMsg(out.res.msgs, {"warning"}) /\ DefaultsAtOnce(out.res)

\* The page fetch raises: timeout, request error, 4xx or 5xx status, parse
\* error
PageRaised(page) ==
    \/ page.get # "response"
    \/ (page.status >= 400 /\ page.status <= 599)
    \/ page.parse # "ok"

\* C7 as amended: extract never raises, and when the page fetch fails by a
\* timeout, a request error, a 4xx or 5xx status or a parse error it emits a
\* notice (an error for a parse error, a warning for the others) and returns
\* the defaults at once, with no further request.
C7_PageFailureGivesDefaults ==
    out.op = "extract" =>
        /\ out.res.raised = NoExc
        /\ PageRaised(out.env.page) =>
               /\ IF out.env.page.get = "response" /\ out.env.page.status < 400
                  THEN HasMsg(out.res.msgs, {"error"})
                  ELSE HasMsg(out.res.msgs, {"warning"})
               /\ DefaultsAtOnce(out.res)

\* An extraction whose page does not parse
C7_Witness ==
    /\ out.op = "extract"
    /\ out.env.page.parse = "Exception"
    /\ out.env.robots.status = 200
    /\ DefaultsAtOnce(out.res)

\* C8: when reading the persisted table fails, load does not raise: it emits
\* an error or a warning and returns a table of zero rows whose columns are
\* exactly the fixed columns.
C8_FailedReadGivesEmptyTable ==
    (Loaded /\ out.load.failed) =>
        /\ out.load.raised = NoExc
        /\ HasMsg(out.load.msgs, {"error", "warning"})
        /\ view.history.columns = FixedColumns
        /\ view.history.rows = <<>>

\* A failed read of a sheet that holds rows
C8_Witness ==
    /\ out.op = "render" /\ out.load.failed
    /\ \E i \in DOMAIN sheet.rows : NonEmptyRow(sheet.rows[i])

\* C9: of two fetch_profile calls for the same handle less than one hour
\* apart, the second returns the result of the first without a new upstream
\* lookup, across consecutive fetch actions.
C9_SecondCallFromCache ==
    (out.op = "fetch" /\ out.prevCall.called /\ out.ts - out.prevCall.at < 3600) =>
        /\ out.lookups = 0
        /\ lastCall.data = out.prevCall.data

\* The label is the one the status text calls for
LabelIs(label) ==
    /\ out.res.label = label
    /\ label = "Unknown" => out.res.raw = out.status.s

HasFoundMark(s) ==
    Contains(s, <<".", "x", "m", "l">>) \/ Contains(s, <<"h", "t", "t", "p">>)
        \/ Contains(s, <<".", "p", "h", "p">>)

\* C10 as stated: a text containing '.xml', 'http' or '.php' classifies as
\* found, the two fixed status texts as not found and as not declared in
\* robots.txt, and any other text as unrecognized, displayed raw.
C10_Original ==
    (out.op = "classify" /\ out.status.k = "str") =>
        IF HasFoundMark(out.status.s) THEN LabelIs("Found")
        ELSE IF out.status.s = NOT_FOUND_CHECKED THEN LabelIs("Not Found")
        ELSE IF out.status.s = DIRECTIVE_NOT_FOUND THEN LabelIs("Not in robots.txt")
        ELSE LabelIs("Unknown")

\* C10 as amended: a text containing '.xml', 'http' or '.php' classifies as
\* found; any other text containing 'Not found' (the fixed 'Not found (checked
\* robots.txt & common paths)' among them) as not found; any other text
\* containing 'Directive not found' (the fixed 'Directive not found in
\* robots.txt' among them) as not declared in robots.txt; any other text as
\* unrecognized, displayed raw.
C10_SitemapClassification ==
    (out.op = "classify" /\ out.status.k = "str") =>
        /\ IF HasFoundMark(out.status.s) THEN LabelIs("Found")
           ELSE IF Contains(out.status.s, <<"N", "o", "t", " ", "f", "o", "u", "n", "d">>)
           THEN LabelIs("Not Found")
           ELSE IF Contains(out.status.s, DirectiveNotFoundPat)
           THEN LabelIs("Not in robots.txt")
           ELSE LabelIs("Unknown")
        /\ out.status.s = NOT_FOUND_CHECKED => LabelIs("Not Found")
        /\ out.status.s = DIRECTIVE_NOT_FOUND => LabelIs("Not in robots.txt")

\* A text that only contains 'Not found' is classified as not found
C10_Witness ==
    /\ out.op = "classify"
    /\ out.status = StrCell(NotFoundPat \o CommonSitemaps[3])
    /\ out.res.label = "Not Found"


\* The loaded rows that qualify for the series s: a valid timestamp and a
\* value that is a number
Qualifying(s) ==
    SelectSeq(view.history.rows,
              LAMBDA r : ~IsNull(r["Timestamp"]) /\ r[s].k \in {"int", "bool"})

\* The points of the series s are the qualifying rows, one point a row
PointsAreQualifying(s) ==
    /\ Len(view.plots[s].points) = Len(Qualifying(s))
    /\ \A i \in DOMAIN Qualifying(s) :
           \E j \in DOMAIN view.plots[s].points :
               /\ view.plots[s].points[j].at = Qualifying(s)[i]["Timestamp"].n
               /\ view.plots[s].points[j].value = Qualifying(s)[i][s].n

\* The page explains why the series s has no chart
Explained(s) ==
    view.plots[s].msgs # <<>> \/ view.msgs # <<>>

\* The series s is charted as the claim says
ChartedFromTwo(s) ==
    /\ view.plots[s].chart <=> Len(Qualifying(s)) >= 2
    /\ view.plots[s].chart => PointsAreQualifying(s)
    /\ ~view.plots[s].chart => Explained(s)

\* C11 as stated: for each of the numeric series Followers, Following and
\* Posts the points plotted are the loaded rows with a valid timestamp and a
\* numeric value, a chart is drawn if and only if there are at least two of
\* them, and otherwise a message explains the missing chart.
C11_Original ==
    Loaded => \A s \in {"Followers", "Following", "Posts"} : ChartedFromTwo(s)

\* C11 as amended: the same for the two series the page charts, Followers and
\* Posts; the series Following is never charted and gets no message of its
\* own.
C11_PlotFromTwoPoints ==
    Loaded =>
        /\ \A s \in {"Followers", "Posts"} : ChartedFromTwo(s)
        /\ ~view.plots["Following"].called
        /\ ~view.plots["Following"].chart

\* A page with a chart of two points for Followers and none for Posts, whose
\* single point is explained
C11_Witness ==
    /\ Loaded
    /\ view.plots["Followers"].chart
    /\ Len(view.plots["Followers"].points) = 2
    /\ view.plots["Posts"].called
    /\ Len(view.plots["Posts"].points) = 1
    /\ ~view.plots["Posts"].chart
    /\ view.plots["Posts"].msgs # <<>>

\* C12: an H1 sequence serialized by append, stored, loaded and parsed back by
\* the presenter is the original sequence: for the empty sequence, for one
\* entry, and for several entries that hold a comma and a bracket.
C12_H1RoundTrip ==
    out.op = "roundtrip" =>
        /\ out.stored.k = "str"
        /\ out.loaded = out.stored
        /\ out.parsed = out.h1

\* The round trip of two entries, one with a comma and one with brackets
C12_Witness ==
    /\ out.op = "roundtrip"
    /\ out.h1 = <<Sample.H1Comma, Sample.H1Bracket>>
    /\ out.parsed = <<Sample.H1Comma, Sample.H1Bracket>>
    /\ Len(out.stored.s) > Len(Sample.H1Comma) + Len(Sample.H1Bracket)

\* The robots.txt answer names a sitemap: a Sitemap line with a value
DirectiveYields(robots) ==
    /\ robots.get = "response"
    /\ robots.status = 200
    /\ \E i \in DOMAIN robots.lines :
           /\ LowerKey(robots.lines[i].key) = "sitemap"
           /\ Strip(robots.lines[i].value) # <<>>

\* A probe of a conventional path finds a sitemap
ProbeYields(probes) ==
    \E i \in DOMAIN probes : probes[i] = "200"

\* C13: in every record extract returns the Sitemap Found field is a
\* non-empty comma-joined list of sitemap URLs or one of the two fixed status
\* texts, and it is the fixed 'Not found' text whenever neither a robots.txt
\* directive nor a probed path yields a sitemap.
C13_SitemapFieldDomain ==
    out.op = "extract" =>
        LET field == out.res.data["Sitemap Found"]
        IN  /\ field.k = "str"
            /\ field.s # <<>>
            /\ field.s # NA_TEXT
            /\ (~DirectiveYields(out.env.robots) /\ ~ProbeYields(out.env.probes))
                   => field.s = NOT_FOUND_CHECKED

\* The place of the event e of session s in the log, 0 when it is not there
LogIndex(s, e) ==
    IF \E i \in DOMAIN race.log : race.log[i] = Event(s, e)
    THEN CHOOSE i \in DOMAIN race.log : race.log[i] = Event(s, e)
    ELSE 0

\* Both sessions loaded before either wrote, and both writes succeeded
LoadsBeforeWrites ==
    /\ \A s \in Sessions : LogIndex(s, "load") > 0 /\ LogIndex(s, "write") > 0
    /\ \A s, t \in Sessions : LogIndex(s, "load") < LogIndex(t, "write")
    /\ \A s \in Sessions : race.wrote[s]

\* The sheet holds the row of the record of session s
HasRowOf(s) ==
    \E i \in DOMAIN sheet.rows :
        sheet.rows[i]["Timestamp"] = IsoText(race.record[s]["Timestamp"].n)

\* C14: with two sessions in the fetch action at once, when both loads come
\* before both writes and both writes succeed, the sheet ends with the new row
\* of one session only, the one that wrote last: the other update is lost.
C14_LostUpdate ==
    LoadsBeforeWrites =>
        /\ \E s \in Sessions : HasRowOf(s)
        /\ \E s \in Sessions : ~HasRowOf(s)
        /\ \A s, t \in Sessions :
               LogIndex(s, "write") < LogIndex(t, "write") => HasRowOf(t) /\ ~HasRowOf(s)

\* Both sessions are done, both writes succeeded after both loads, and the
\* sheet holds the earlier history and the row of session 2 without the row
\* of session 1
C14_Witness ==
    /\ LoadsBeforeWrites
    /\ \A s \in Sessions : race.pc[s] = "done"
    /\ \A s \in Sessions : ~race.ld[s].failed
    /\ HasRowOf(2)
    /\ ~HasRowOf(1)
    /\ Len(sheet.rows) >= 2

\* A notice with the text t is among msgs
HasNotice(msgs, t) ==
    \E i \in DOMAIN msgs : msgs[i].text = t

\* C15: when the write of append fails, append reports the failure with the
\* notice that the latest data point might not have been saved, calls the
\* write once only, does not raise, and leaves the sheet as it was.
C15_FailedWriteKeepsTable ==
    [][(IsFetchStep /\ ~out'.wrote) =>
          /\ out'.completed
          /\ out'.attempts = 1
          /\ sheet' = sheet
          /\ \E i \in DOMAIN out'.msgs :
                 /\ out'.msgs[i] = Msg("error", "Failed to save data to Google Sheet")
                 /\ i < Len(out'.msgs)
                 /\ out'.msgs[i + 1]
                        = Msg("error", "The latest data point might not have been saved")]_vars

\* A fetch action whose write failed on a sheet that holds rows
C15_Witness ==
    /\ out.op = "fetch"
    /\ ~out.wrote
    /\ out.attempts = 1
    /\ HasNotice(out.msgs, "The latest data point might not have been saved")
    /\ \E i \in DOMAIN sheet.rows : NonEmptyRow(sheet.rows[i])

\* The sheet holds the row of the record of the last fetch action
NewRowStored ==
    \E i \in DOMAIN sheet.rows : sheet.rows[i]["Timestamp"] = IsoText(out.ts)

\* C16: every fetch action ends with the 'fetched and saved successfully'
\* notice as its last notice, with the caches cleared and with the page run
\* again on the sheet, whether the write succeeded or failed.
C16_SuccessOnEveryPath ==
    out.op = "fetch" =>
        /\ out.completed
        /\ out.msgs[Len(out.msgs)]
               = Msg("success", "Monitoring data fetched and saved successfully")
        /\ instaCache = NoEntry(ProfileDefaults)
        /\ IF out.load.failed
           THEN readCache = NoEntry(EmptyFrame) /\ view.history.rows = <<>>
           ELSE /\ readCache.at = out.ts
                /\ LoadedExactlyParseable

\* A fetch action that gave the success notice after a failed write: the new
\* row is not in the sheet
C16_Witness ==
    /\ out.op = "fetch"
    /\ out.completed
    /\ ~out.wrote
    /\ out.lookups = 1
    /\ HasNotice(out.msgs, "Monitoring data fetched and saved successfully")
    /\ HasNotice(out.msgs, "Failed to save data to Google Sheet")
    /\ ~NewRowStored
====
